---- MODULE Spec2Model ----
(***************************************************************************)
(* Customer segmentation and retention pipeline: RFM scoring and segment   *)
(* assignment (src/src/features/build_features.py), churn labelling and    *)
(* model training (src/src/models/churn_model.py, ltv_model.py), the       *)
(* rule-based offer recommender (src/src/business/offer_recommender.py),   *)
(* the model artifacts on disk and the dashboard's handling of an uploaded *)
(* transaction file and of its session (src/webapp/app.py, utils.py,       *)
(* pages/).                                                                *)
(*                                                                         *)
(* Tables (pandas DataFrames) are sequences of records, one record per     *)
(* row, in index order.  Timestamps are integers counted in ticks, with    *)
(* TicksPerDay ticks to the day, so that timedelta.days is a floor         *)
(* division.  Money is an integer number of currency units.  Quantiles     *)
(* are computed exactly, by linear interpolation on scaled integers;       *)
(* floating-point rounding of the interpolation is not modelled.           *)
(***************************************************************************)
EXTENDS Integers, Sequences, FiniteSets

VARIABLES
    score_row,      \* the (R_Score, F_Score, M_Score) row given to assign_segment
    segment_out,    \* what assign_segment returned for score_row
    df,             \* the transaction table
    ret,            \* the outcome of the call made on df
    also,           \* the outcome of a second function run on the same df
    customers_df,   \* the scored customer table given to the offer recommender
    customers,      \* what generate_offer_recommendations returned
    summary,        \* what create_marketing_campaign_summary returned
    customer_features,  \* the feature table given to prepare_features_and_labels
    churn_labels,   \* the labels given to prepare_features_and_labels
    prepared,       \* what prepare_features_and_labels returned
    trained,        \* the outcome of the training call
    files,          \* the model artifacts on disk, by path
    saved,          \* the model last saved at each path
    saves,          \* how many models were saved
    loaded,         \* the outcome of the loader call
    page,           \* the outcome of the dashboard page run
    raw_df,         \* the uploaded CSV file as read: its columns and rows
    uploaded,       \* the outcome of the dashboard's handling of the upload
    session,        \* st.session_state: its keys, customer_data and data_source
    metric,         \* one metric column of an aggregated RFM table
    scored          \* the score column computed from metric

segment_vars == <<score_row, segment_out>>
feature_vars == <<df, ret, also>>
offer_vars == <<customers_df, customers, summary>>
train_vars == <<customer_features, churn_labels, prepared, trained>>
artifact_vars == <<files, saved, saves, loaded, page>>
upload_vars == <<raw_df, uploaded, session>>
score_vars == <<metric, scored>>
vars ==
    <<segment_vars, feature_vars, offer_vars, train_vars, artifact_vars, upload_vars,
      score_vars>>

\* ------------------------------------------------------------------ bounds
MaxCust == 2
MaxRows == 3
MaxTick == 2
MaxPrice == 1
TicksPerDay == 2
MaxWindow == 1
MaxScored == 2
MaxLTV == 2
MaxSamples == 4
MaxFeature == 2

\* pandas' missing value (NaN / NaT), below every value a column can hold
NaN == -1000000

\* ------------------------------------------------------------- assign_segment
Scores == 1..5

Segments == {"Champions", "Loyal", "At Risk", "New", "Others"}

assign_segment_rule2_first(row) ==
    LET r == row.R_Score
        f == row.F_Score
        m == row.M_Score
    IN  IF r >= 3 /\ f >= 3 /\ m >= 3 THEN "Loyal"
        ELSE IF r >= 4 /\ f >= 4 /\ m >= 4 THEN "Champions"
        ELSE IF r <= 2 /\ (f >= 4 \/ m >= 4) THEN "At Risk"
        ELSE IF r >= 4 /\ f <= 2 /\ m <= 2 THEN "New"
        ELSE "Others"

assign_segment(row) ==
    LET r == row.R_Score
        f == row.F_Score
        m == row.M_Score
    IN  IF r >= 4 /\ f >= 4 /\ m >= 4 THEN "Champions"
        ELSE IF r >= 3 /\ f >= 3 /\ m >= 3 THEN "Loyal"
        ELSE IF r <= 2 /\ (f >= 4 \/ m >= 4) THEN "At Risk"
        ELSE IF r >= 4 /\ f <= 2 /\ m <= 2 THEN "New"
        ELSE "Others"

\* -------------------------------------------------------- transaction tables
Customers == 1..MaxCust
Dates == 0..MaxTick
Prices == 1..MaxPrice

\* a row of the transaction table; InvoiceDate is NaN where parsing failed
TxnRows == [CustomerID : Customers, InvoiceDate : Dates \cup {NaN}, TotalPrice : Prices]

RowCode(r) ==
    (r.CustomerID * (MaxTick + 2)
        + (IF r.InvoiceDate = NaN THEN 0 ELSE r.InvoiceDate + 1)) * (MaxPrice + 1)
    + r.TotalPrice

\* tables are taken up to the order of their rows: every use of the table is
\* a group-by aggregate or a column reduction, which row order does not change
RowsInOrder(t) == \A i \in 1..(Len(t) - 1) : RowCode(t[i]) <= RowCode(t[i + 1])

\* ------------------------------------------------------------ pandas helpers
Range(s) == {s[i] : i \in 1..Len(s)}

\* the element of a singleton set; binding a name through {e} evaluates e once
\* wherever the name is used
The(S) == CHOOSE v \in S : TRUE

Column(frame, name) == [i \in 1..Len(frame) |-> frame[i][name]]

RECURSIVE SortedSeq(_)
\* the elements of a finite set of integers, ascending
SortedSeq(S) ==
    IF S = {} THEN <<>>
    ELSE LET lo == CHOOSE x \in S : \A y \in S : x <= y
         IN  <<lo>> \o SortedSeq(S \ {lo})

RECURSIVE Insert(_, _)
Insert(s, v) ==
    IF s = <<>> THEN <<v>>
    ELSE IF v <= Head(s) THEN <<v>> \o s
    ELSE <<Head(s)>> \o Insert(Tail(s), v)

RECURSIVE SortValues(_)
\* Series.sort_values() after dropna()
SortValues(s) ==
    IF s = <<>> THEN <<>>
    ELSE IF Head(s) = NaN THEN SortValues(Tail(s))
    ELSE Insert(SortValues(Tail(s)), Head(s))

RECURSIVE Sum(_)
Sum(s) == IF s = <<>> THEN 0 ELSE Head(s) + Sum(Tail(s))

\* Series.max() / Series.min(): missing values are skipped, NaN when none is left
SeriesMax(s) ==
    LET present == Range(s) \ {NaN}
    IN  IF present = {} THEN NaN ELSE CHOOSE x \in present : \A y \in present : y <= x

SeriesMin(s) ==
    LET present == Range(s) \ {NaN}
    IN  IF present = {} THEN NaN ELSE CHOOSE x \in present : \A y \in present : x <= y

\* (a - b).days: whole days of a timedelta, rounded towards minus infinity
Days(a, b) == IF a = NaN \/ b = NaN THEN NaN ELSE (a - b) \div TicksPerDay

GroupKeys_per_row(frame, key) == SelectSeq(Column(frame, key), LAMBDA v : v # NaN)

\* df.groupby(key): the distinct keys in ascending order, and a key's rows
GroupKeys(frame, key) == SortedSeq(Range(Column(frame, key)) \ {NaN})

Group(frame, key, k) == SelectSeq(frame, LAMBDA r : r[key] = k)

\* ---------------------------------------------------------------- pd.qcut
NBins == 5

\* Series.rank(method='first'): ties ranked in order of appearance
rank_first(x) ==
    [i \in 1..Len(x) |->
        IF x[i] = NaN THEN NaN
        ELSE 1 + Cardinality({j \in 1..Len(x) :
                 x[j] # NaN /\ (x[j] < x[i] \/ (x[j] = x[i] /\ j < i))})]

\* den times the num/den quantile of the sorted values s (Series.quantile,
\* interpolation='linear'): the value at position (Len(s) - 1) * num / den,
\* interpolated between the two nearest order statistics
Quantile(s, num, den) ==
    LET pos == (Len(s) - 1) * num
        lo == pos \div den
        frac == pos % den
    IN  IF frac = 0 THEN den * s[lo + 1]
        ELSE den * s[lo + 1] + frac * (s[lo + 2] - s[lo + 1])

\* NBins times the k-th bin edge, the k/NBins quantile
BinEdge(s, k) == Quantile(s, k, NBins)

\* the NBins + 1 bin edges of the values x (times NBins), <<>> when x holds
\* no value
BinEdges(x) ==
    The({IF s = <<>> THEN <<>> ELSE [k \in 1..(NBins + 1) |-> BinEdge(s, k - 1)] :
         s \in {SortValues(x)}})

\* the bin of value v: bins are right-closed and the first includes its left
\* edge (searchsorted(side='left'), include_lowest=True)
BinOf(bins, v) ==
    IF NBins * v = bins[1] THEN 1
    ELSE Cardinality({k \in 1..(NBins + 1) : bins[k] < NBins * v})

\* pd.qcut(x, NBins, labels): ok is FALSE where pandas raises ValueError
\* ("Bin edges must be unique"), codes holds the label of each value's bin
qcut(x, labels) ==
    The({IF bins # <<>> /\ \A k \in 1..NBins : bins[k] < bins[k + 1]
         THEN [ok |-> TRUE,
               codes |-> [i \in 1..Len(x) |->
                   IF x[i] = NaN \/ BinOf(bins, x[i]) \in {0, NBins + 1} THEN NaN
                   ELSE labels[BinOf(bins, x[i])]]]
         ELSE [ok |-> FALSE, codes |-> <<>>] :
         bins \in {BinEdges(x)}})

\* ------------------------------------------------------------- calculate_rfm
\* an optional argument that was not passed
None == NaN - 1

RecencyLabels_zero_based == <<4, 3, 2, 1, 0>>

RecencyLabels == <<5, 4, 3, 2, 1>>
DirectLabels == <<1, 2, 3, 4, 5>>

ScoreStr_float(v) ==
    IF v = NaN THEN "nan"
    ELSE <<"0.0", "1.0", "2.0", "3.0", "4.0", "5.0", "6.0", "7.0", "8.0", "9.0">>[v + 1]

\* str() of a score: a one-digit label, or nan
ScoreStr(v) ==
    IF v = NaN THEN "nan"
    ELSE <<"0", "1", "2", "3", "4", "5", "6", "7", "8", "9">>[v + 1]

RfmReferenceDate_day_before(frame, reference_date) ==
    IF reference_date = None
    THEN LET latest == SeriesMax(Column(frame, "InvoiceDate"))
         IN  IF latest = NaN THEN NaN ELSE latest - TicksPerDay
    ELSE reference_date

\* reference_date defaults to the latest transaction plus one day
RfmReferenceDate(frame, reference_date) ==
    IF reference_date = None
    THEN LET latest == SeriesMax(Column(frame, "InvoiceDate"))
         IN  IF latest = NaN THEN NaN ELSE latest + TicksPerDay
    ELSE reference_date

\* df.groupby(customer_id).agg({...}).rename(...): one row per group
RfmAggregate(frame, reference_date) ==
    LET keys == GroupKeys(frame, "CustomerID")
        agg(k) ==
            LET g == Group(frame, "CustomerID", k)
            IN  [CustomerID |-> k,
                 Recency |-> Days(reference_date, SeriesMax(Column(g, "InvoiceDate"))),
                 Frequency |-> Len(g),
                 Monetary |-> Sum(Column(g, "TotalPrice"))]
    IN  [i \in 1..Len(keys) |-> agg(keys[i])]

\* try: pd.qcut(values) / except ValueError: pd.qcut(values.rank(method='first'))
QcutWithFallback(x, labels) ==
    The({IF direct.ok THEN direct ELSE qcut(rank_first(x), labels) :
         direct \in {qcut(x, labels)}})

\* both the try and the except branch of F_Score bin the ranks
QcutOfRanks(x, labels) ==
    The({IF first.ok THEN first ELSE qcut(rank_first(x), labels) :
         first \in {qcut(rank_first(x), labels)}})

\* the scored table with its RFM_Score and Segment columns, or the ValueError
\* of a failed binning or of int() on a missing score
RfmScored(rfm, R, F, M) ==
    IF ~R.ok \/ ~F.ok \/ ~M.ok
    THEN [status |-> "ValueError", rows |-> <<>>]
    ELSE IF \E i \in 1..Len(rfm) : NaN \in {R.codes[i], F.codes[i], M.codes[i]}
    THEN [status |-> "ValueError", rows |-> <<>>]
    ELSE [status |-> "ok",
          rows |-> [i \in 1..Len(rfm) |->
              [CustomerID |-> rfm[i].CustomerID,
               Recency |-> rfm[i].Recency,
               Frequency |-> rfm[i].Frequency,
               Monetary |-> rfm[i].Monetary,
               R_Score |-> R.codes[i],
               F_Score |-> F.codes[i],
               M_Score |-> M.codes[i],
               RFM_Score |-> ScoreStr(R.codes[i]) \o ScoreStr(F.codes[i])
                                \o ScoreStr(M.codes[i]),
               Segment |-> assign_segment([R_Score |-> R.codes[i],
                                           F_Score |-> F.codes[i],
                                           M_Score |-> M.codes[i]])]]]

calculate_rfm(frame, reference_date) ==
    The({The({RfmScored(rfm, R, F, M) :
                R \in {QcutWithFallback(Column(rfm, "Recency"), RecencyLabels)},
                F \in {QcutOfRanks(Column(rfm, "Frequency"), DirectLabels)},
                M \in {QcutWithFallback(Column(rfm, "Monetary"), DirectLabels)}}) :
         rfm \in {RfmAggregate(frame, RfmReferenceDate(frame, reference_date))}})

\* ------------------------------------------------------- add_tenure_features
\* reference_date defaults to the latest transaction
TenureReferenceDate(frame, reference_date) ==
    IF reference_date = None
    THEN SeriesMax(Column(frame, "InvoiceDate"))
    ELSE reference_date

add_tenure_features_from_first(frame, reference_date) ==
    LET ref == TenureReferenceDate(frame, reference_date)
        keys == GroupKeys(frame, "CustomerID")
        tenure(k) ==
            LET dates == Column(Group(frame, "CustomerID", k), "InvoiceDate")
            IN  [CustomerID |-> k,
                 FirstPurchase |-> SeriesMin(dates),
                 LastPurchase |-> SeriesMax(dates),
                 TenureDays |-> Days(ref, SeriesMin(dates)),
                 RecencyDays |-> Days(ref, SeriesMin(dates))]
    IN  [i \in 1..Len(keys) |-> tenure(keys[i])]

add_tenure_features(frame, reference_date) ==
    LET ref == TenureReferenceDate(frame, reference_date)
        keys == GroupKeys(frame, "CustomerID")
        tenure(k) ==
            LET dates == Column(Group(frame, "CustomerID", k), "InvoiceDate")
            IN  [CustomerID |-> k,
                 FirstPurchase |-> SeriesMin(dates),
                 LastPurchase |-> SeriesMax(dates),
                 TenureDays |-> Days(ref, SeriesMin(dates)),
                 RecencyDays |-> Days(ref, SeriesMax(dates))]
    IN  [i \in 1..Len(keys) |-> tenure(keys[i])]

\* ------------------------------------------------------- add_avg_order_value
\* the mean of a group's amounts, kept exact as the pair <<sum, count>>
add_avg_order_value(frame) ==
    LET keys == GroupKeys(frame, "CustomerID")
        mean(k) ==
            LET g == Group(frame, "CustomerID", k)
            IN  [CustomerID |-> k,
                 AvgOrderValue |-> <<Sum(Column(g, "TotalPrice")), Len(g)>>]
    IN  [i \in 1..Len(keys) |-> mean(keys[i])]

\* -------------------------------------------------------- build_all_features
\* the union of two rows' columns (the left row wins a shared column)
MergeRows(l, r) ==
    [c \in DOMAIN l \cup DOMAIN r |-> IF c \in DOMAIN l THEN l[c] ELSE r[c]]

\* left.join(right): a left join on the index (CustomerID); a left row with
\* no partner gets missing values in the right table's columns, a left row
\* with several partners is repeated once per partner.  pairs lists the
\* (left row, partner) positions in order, partner 0 standing for none.
Join(left, right, cols) ==
    LET width == Len(right) + 1
        partners(i) == {j \in 1..Len(right) : right[j].CustomerID = left[i].CustomerID}
        codes == {i * width + j : i \in 1..Len(left), j \in 0..Len(right)}
        kept == {c \in codes :
                    LET i == c \div width
                        j == c % width
                    IN  IF j = 0 THEN partners(i) = {} ELSE j \in partners(i)}
    IN  The({[n \in 1..Len(pairs) |->
                IF pairs[n] % width = 0
                THEN MergeRows(left[pairs[n] \div width], [c \in cols |-> NaN])
                ELSE MergeRows(left[pairs[n] \div width], right[pairs[n] % width])] :
             pairs \in {SortedSeq(kept)}})

TenureColumns == {"FirstPurchase", "LastPurchase", "TenureDays", "RecencyDays"}

build_all_features_shared_reference(frame) ==
    The({IF rfm.status # "ok" THEN rfm
         ELSE [status |-> "ok",
               rows |-> The({Join(with_tenure, avg_order, {"AvgOrderValue"}) :
                             with_tenure \in {Join(rfm.rows, tenure, TenureColumns)}})] :
         rfm \in {calculate_rfm(frame, None)},
         tenure \in {add_tenure_features(frame, RfmReferenceDate(frame, None))},
         avg_order \in {add_avg_order_value(frame)}})

build_all_features(frame) ==
    The({IF rfm.status # "ok" THEN rfm
         ELSE [status |-> "ok",
               rows |-> The({Join(with_tenure, avg_order, {"AvgOrderValue"}) :
                             with_tenure \in {Join(rfm.rows, tenure, TenureColumns)}})] :
         rfm \in {calculate_rfm(frame, None)},
         tenure \in {add_tenure_features(frame, None)},
         avg_order \in {add_avg_order_value(frame)}})

\* ------------------------------------------------------- define_churn_labels
define_churn_labels_ge(df_transactions, index, churn_window_days, reference_date) ==
    LET ref == IF reference_date = None
               THEN SeriesMax(Column(df_transactions, "InvoiceDate"))
               ELSE reference_date
        keys == GroupKeys(df_transactions, "CustomerID")
        last_purchase(k) ==
            SeriesMax(Column(Group(df_transactions, "CustomerID", k), "InvoiceDate"))
        \* reindex(customer_features.index, fill_value=churn_window_days + 1)
        days_since_last(k) ==
            IF k \in Range(keys) THEN Days(ref, last_purchase(k))
            ELSE churn_window_days + 1
        \* a comparison with a missing value is False
        churn(k) ==
            IF days_since_last(k) # NaN /\ days_since_last(k) >= churn_window_days
            THEN 1 ELSE 0
    IN  [i \in 1..Len(index) |-> [CustomerID |-> index[i], ChurnLabel |-> churn(index[i])]]

\* index is customer_features.index, the customers to label
define_churn_labels(df_transactions, index, churn_window_days, reference_date) ==
    LET ref == IF reference_date = None
               THEN SeriesMax(Column(df_transactions, "InvoiceDate"))
               ELSE reference_date
        keys == GroupKeys(df_transactions, "CustomerID")
        last_purchase(k) ==
            SeriesMax(Column(Group(df_transactions, "CustomerID", k), "InvoiceDate"))
        \* reindex(customer_features.index, fill_value=churn_window_days + 1)
        days_since_last(k) ==
            IF k \in Range(keys) THEN Days(ref, last_purchase(k))
            ELSE churn_window_days + 1
        \* a comparison with a missing value is False
        churn(k) ==
            IF days_since_last(k) # NaN /\ days_since_last(k) > churn_window_days
            THEN 1 ELSE 0
    IN  [i \in 1..Len(index) |-> [CustomerID |-> index[i], ChurnLabel |-> churn(index[i])]]

\* ------------------------------------------- generate_offer_recommendations
VipOffer == "VIP exclusive event invitation + early access to new products"
PointsOffer == "Loyalty points multiplier (2x for next month)"
MissYouOffer == "Personalized 'we miss you' discount (15% off)"
ReferralOffer == "Referral bonus: give $10, get $10"
HighValueAtRiskOffer == "High-value at-risk: 25% off next purchase + free shipping"
ReEngagementOffer == "Re-engagement email with 20% off"
WelcomeOffer == "Welcome series: 10% off second purchase"
NextOrderOffer == "We miss you! 15% off your next order"
FlashSaleOffer == "Flash sale preview (24h early access)"
NewsletterOffer == "Standard monthly newsletter with personalized recommendations"

\* ChurnProb is held in hundredths, so 0.5 is 50 and 0.7 is 70
LoyalChurnThreshold == 50
OthersChurnThreshold == 70

RowGet_default_one(row, col) == IF col \in DOMAIN row THEN row[col] ELSE 100

\* row.get(col, 0)
RowGet(row, col) == IF col \in DOMAIN row THEN row[col] ELSE 0

\* ten times customers_df['HistoricalLTV'].quantile(0.9)
HighLtvThreshold10(frame) == Quantile(SortValues(Column(frame, "HistoricalLTV")), 9, 10)

\* twice customers_df['HistoricalLTV'].median()
MedianLtv2(frame) == Quantile(SortValues(Column(frame, "HistoricalLTV")), 1, 2)

offer_logic_loyal_ge(row, high_ltv_threshold10, median_ltv2) ==
    LET segment == row.Segment
        churn_prob == RowGet(row, "ChurnProb")
        historical_ltv == row.HistoricalLTV
    IN  IF segment = "Champions"
        THEN IF 10 * historical_ltv > high_ltv_threshold10 THEN VipOffer ELSE PointsOffer
        ELSE IF segment = "Loyal"
        THEN IF churn_prob >= LoyalChurnThreshold THEN MissYouOffer ELSE ReferralOffer
        ELSE IF segment = "At Risk"
        THEN IF 2 * historical_ltv > median_ltv2 THEN HighValueAtRiskOffer
             ELSE ReEngagementOffer
        ELSE IF segment = "New" THEN WelcomeOffer
        ELSE IF churn_prob > OthersChurnThreshold THEN NextOrderOffer
        ELSE IF 2 * historical_ltv > median_ltv2 THEN FlashSaleOffer
        ELSE NewsletterOffer

offer_logic(row, high_ltv_threshold10, median_ltv2) ==
    LET segment == row.Segment
        churn_prob == RowGet(row, "ChurnProb")
        predicted_ltv == RowGet(row, "PredictedLTV_Next6Months")
        historical_ltv == row.HistoricalLTV
    IN  IF segment = "Champions"
        THEN IF 10 * historical_ltv > high_ltv_threshold10 THEN VipOffer ELSE PointsOffer
        ELSE IF segment = "Loyal"
        THEN IF churn_prob > LoyalChurnThreshold THEN MissYouOffer ELSE ReferralOffer
        ELSE IF segment = "At Risk"
        THEN IF 2 * historical_ltv > median_ltv2 THEN HighValueAtRiskOffer
             ELSE ReEngagementOffer
        ELSE IF segment = "New" THEN WelcomeOffer
        ELSE IF churn_prob > OthersChurnThreshold THEN NextOrderOffer
        ELSE IF 2 * historical_ltv > median_ltv2 THEN FlashSaleOffer
        ELSE NewsletterOffer

\* the table with a RecommendedOffer column set on it
WithOffers(frame) ==
    The({[i \in 1..Len(frame) |->
            MergeRows([RecommendedOffer |-> offer_logic(frame[i], p90, median)], frame[i])] :
         p90 \in {HighLtvThreshold10(frame)}, median \in {MedianLtv2(frame)}})

generate_offer_recommendations_in_place(frame) ==
    [customers_df |-> WithOffers(frame), customers |-> WithOffers(frame)]

\* customers = customers_df.copy(): the column is set on the copy, which is
\* returned; customers_df is the caller's table after the call
generate_offer_recommendations(frame) ==
    [customers_df |-> frame, customers |-> WithOffers(frame)]

\* ---------------------------------------- create_marketing_campaign_summary
\* an offer a caller's table may carry that offer_logic never returns and
\* cost_map does not list
CustomOffer == "Free gift with the next order"

\* the offers, in the order groupby sorts its keys (by code point)
OfferOrder ==
    <<FlashSaleOffer, CustomOffer, HighValueAtRiskOffer, PointsOffer, MissYouOffer,
      ReEngagementOffer, ReferralOffer, NewsletterOffer, VipOffer, NextOrderOffer,
      WelcomeOffer>>

DefaultCost == 5

EstimatedCost_unlisted_free(offer) ==
    CASE offer = VipOffer -> 50
      [] offer = PointsOffer -> 5
      [] offer = MissYouOffer -> 8
      [] offer = ReferralOffer -> 10
      [] offer = HighValueAtRiskOffer -> 20
      [] offer = ReEngagementOffer -> 6
      [] offer = WelcomeOffer -> 4
      [] offer = NextOrderOffer -> 7
      [] offer = FlashSaleOffer -> 2
      [] offer = NewsletterOffer -> 1
      [] OTHER -> 0

\* cost_map.get(offer), DefaultCost for an offer the map lacks
EstimatedCost(offer) ==
    CASE offer = VipOffer -> 50
      [] offer = PointsOffer -> 5
      [] offer = MissYouOffer -> 8
      [] offer = ReferralOffer -> 10
      [] offer = HighValueAtRiskOffer -> 20
      [] offer = ReEngagementOffer -> 6
      [] offer = WelcomeOffer -> 4
      [] offer = NextOrderOffer -> 7
      [] offer = FlashSaleOffer -> 2
      [] offer = NewsletterOffer -> 1
      [] OTHER -> DefaultCost

\* ('CustomerID', 'count'): the group's rows whose CustomerID is present
CustomerCount_first(g) == g[1].CustomerID

CustomerCount(g) == Len(SelectSeq(g, LAMBDA r : r.CustomerID # NaN))

\* one summary row per offer that occurs; AvgLTV and ExpectedRevenue are kept
\* exact as <<numerator, denominator>>.  Aggregating a column the table lacks
\* raises KeyError.
create_marketing_campaign_summary(customers_with_offers) ==
    LET needed == {"RecommendedOffer", "CustomerID", "PredictedLTV_Next6Months",
                   "HistoricalLTV"}
        present == SelectSeq(OfferOrder, LAMBDA o :
                       \E i \in 1..Len(customers_with_offers) :
                           customers_with_offers[i].RecommendedOffer = o)
        row(o) ==
            The({[RecommendedOffer |-> o,
                  CustomerCount |-> CustomerCount(g),
                  AvgLTV |-> <<Sum(Column(g, "PredictedLTV_Next6Months")), Len(g)>>,
                  TotalHistoricalLTV |-> Sum(Column(g, "HistoricalLTV")),
                  EstimatedCostPerCustomer |-> EstimatedCost(o),
                  TotalCost |-> CustomerCount(g) * EstimatedCost(o),
                  ExpectedRevenue |->
                      <<CustomerCount(g) * Sum(Column(g, "PredictedLTV_Next6Months")),
                        Len(g) * 10>>] :
                 g \in {Group(customers_with_offers, "RecommendedOffer", o)}})
    IN  IF \E i \in 1..Len(customers_with_offers) :
               ~(needed \subseteq DOMAIN customers_with_offers[i])
        THEN [status |-> "KeyError", rows |-> <<>>]
        ELSE [status |-> "ok", rows |-> [i \in 1..Len(present) |-> row(present[i])]]

\* ----------------------------------------------- prepare_features_and_labels
FeatureCols == <<"Recency", "Frequency", "Monetary", "TenureDays", "AvgOrderValue">>

\* twice X[col].median(): the median of the present values, NaN when the
\* column has none
ColumnMedian2(frame, col) ==
    The({IF present = <<>> THEN NaN ELSE Quantile(present, 1, 2) :
         present \in {SortValues(Column(frame, col))}})

HasNull(frame, cols) ==
    \E i \in 1..Len(frame) : \E n \in 1..Len(cols) : frame[i][cols[n]] = NaN

\* X.fillna(X.median()): a missing cell takes its column's median; a missing
\* median fills nothing.  Cells are held in halves (twice their value).
FillWithMedian(frame, cols) ==
    [i \in 1..Len(frame) |->
        [c \in Range(cols) |->
            IF frame[i][c] = NaN THEN ColumnMedian2(frame, c) ELSE 2 * frame[i][c]]]

\* X = customer_features[feature_cols].copy(), filled where anything is
\* missing; y = churn_labels.copy()
prepare_features_and_labels(features, labels, feature_cols) ==
    [status |-> "ok",
     rows |-> IF HasNull(features, feature_cols)
              THEN FillWithMedian(features, feature_cols)
              ELSE [i \in 1..Len(features) |->
                       [c \in Range(feature_cols) |-> 2 * features[i][c]]],
     y |-> labels]

\* --------------------------------------------------------- train_churn_model
\* ceil(n * num / den) and floor(n * (den - num) / den): the sizes of the test
\* and of the train part of train_test_split(test_size=num/den)
TestSize(n, num, den) == (n * num + den - 1) \div den

TrainSize(n, num, den) == (n * (den - num)) \div den

ClassCounts(y) == {Cardinality({i \in 1..Len(y) : y[i] = c}) : c \in Range(y)}

\* train_test_split raises ValueError when a part would be empty and, when
\* stratifying, when a class has a single member or a part is smaller than
\* the number of classes
SplitRaises(y, num, den, stratify) ==
    \/ TrainSize(Len(y), num, den) = 0
    \/ TestSize(Len(y), num, den) = 0
    \/ /\ stratify
       /\ \/ \E n \in ClassCounts(y) : n < 2
          \/ TrainSize(Len(y), num, den) < Cardinality(Range(y))
          \/ TestSize(Len(y), num, den) < Cardinality(Range(y))

CvFolds == 5

\* the steps a training call performs, in order, and how it ends.  A fit on
\* a matrix with missing cells may or may not raise (fit_raises).
train_churn_model(X, y, model_type, tune_hyperparams, fit_raises) ==
    LET split == <<"train_test_split">>
        n_train == TrainSize(Len(y), 3, 10)
        fit == IF tune_hyperparams THEN <<"GridSearchCV.fit">> ELSE <<"fit">>
        \* the stratified test part holds every class of y
        one_class_test == Cardinality(Range(y)) < 2
        failed(steps) == [status |-> "ValueError", steps |-> steps, returns |-> <<>>]
    IN  IF SplitRaises(y, 3, 10, TRUE) THEN failed(split)
        ELSE IF model_type \notin {"random_forest", "xgboost"} THEN failed(split)
        ELSE IF fit_raises \/ (tune_hyperparams /\ n_train < CvFolds)
        THEN failed(split \o fit)
        ELSE IF one_class_test
        THEN failed(split \o fit \o <<"predict", "predict_proba", "roc_auc_score">>)
        ELSE [status |-> "ok",
              steps |-> split \o fit \o <<"predict", "predict_proba", "roc_auc_score",
                                          "feature_importances">>,
              returns |-> <<"model", "X_train", "X_test", "y_train", "y_test">>]

\* ------------------------------------------------ train_predictive_ltv_model
train_predictive_ltv_model(X, y_ltv, model_type, fit_raises) ==
    LET split == <<"train_test_split">>
        failed(steps) == [status |-> "ValueError", steps |-> steps, returns |-> <<>>]
    IN  IF SplitRaises(y_ltv, 1, 5, FALSE) THEN failed(split)
        ELSE IF model_type \notin {"linear", "random_forest"} THEN failed(split)
        ELSE IF fit_raises THEN failed(split \o <<"fit">>)
        ELSE [status |-> "ok",
              steps |-> split \o <<"fit", "predict", "mean_absolute_error",
                                   "mean_squared_error", "r2_score">>,
              returns |-> <<"model", "X_train", "X_test", "y_train", "y_test">>]

\* ---------------------------------------------------------- model artifacts
MaxSaves == 2

\* the rows of an input matrix
Inputs == {1, 2}

\* a fitted model, by the prediction it makes for each input row
Models == [1..2 -> {0, 1}]

\* model.predict on one row
Predict(model, x) == model[x]

\* Python's None in place of a model
NoneModel == <<>>

\* a path at which no file exists
NoFile == <<>>

\* the default filepath of save_model / load_model, of save_ltv_model /
\* load_ltv_model, and the two paths the dashboard loads from
CoreChurnPath == "models/churn_model.pkl"
CoreLtvPath == "models/ltv_model.pkl"
DashboardChurnPath == "webapp/../models/churn_model_rf.pkl"
DashboardLtvPath == "webapp/../models/ltv_model_rf.pkl"
Paths == {CoreChurnPath, CoreLtvPath, DashboardChurnPath, DashboardLtvPath}

\* joblib.dump: the object written out as a length-prefixed blob
joblib_dump(model) == <<Len(model)>> \o model

\* joblib.load: the object read back from the blob
joblib_load(blob) == SubSeq(blob, 2, blob[1] + 1)

save_model(fs, model, filepath) == [fs EXCEPT ![filepath] = joblib_dump(model)]

save_ltv_model(fs, model, filepath) == [fs EXCEPT ![filepath] = joblib_dump(model)]

load_model_default_path(fs, filepath) ==
    IF fs[CoreChurnPath] = NoFile
    THEN [status |-> "FileNotFoundError", model |-> NoneModel, reported |-> "none"]
    ELSE [status |-> "ok", model |-> joblib_load(fs[CoreChurnPath]), reported |-> "none"]

\* joblib.load raises FileNotFoundError on a path without a file
load_model(fs, filepath) ==
    IF fs[filepath] = NoFile
    THEN [status |-> "FileNotFoundError", model |-> NoneModel, reported |-> "none"]
    ELSE [status |-> "ok", model |-> joblib_load(fs[filepath]), reported |-> "none"]

load_ltv_model(fs, filepath) ==
    IF fs[filepath] = NoFile
    THEN [status |-> "FileNotFoundError", model |-> NoneModel, reported |-> "none"]
    ELSE [status |-> "ok", model |-> joblib_load(fs[filepath]), reported |-> "none"]

utils_load_churn_model_unguarded(fs) == load_model(fs, DashboardChurnPath)

\* webapp/utils.py load_churn_model: None and st.error when the file is absent
utils_load_churn_model(fs) ==
    IF fs[DashboardChurnPath] = NoFile
    THEN [status |-> "ok", model |-> NoneModel, reported |-> "st.error"]
    ELSE [status |-> "ok", model |-> joblib_load(fs[DashboardChurnPath]),
          reported |-> "none"]

\* webapp/utils.py load_ltv_model: None and st.warning when the file is absent
utils_load_ltv_model(fs) ==
    IF fs[DashboardLtvPath] = NoFile
    THEN [status |-> "ok", model |-> NoneModel, reported |-> "st.warning"]
    ELSE [status |-> "ok", model |-> joblib_load(fs[DashboardLtvPath]),
          reported |-> "none"]

\* a page script run to its end, to st.stop() or to an exception
PageRun(name, data_exists, got, steps, status) ==
    [name |-> name, data_exists |-> data_exists, model |-> got.model,
     reported |-> got.reported, steps |-> steps, status |-> status]

\* pages/2_Churn_Analysis.py: df.empty or model is None stops the script
ChurnAnalysisPage(fs, data_exists) ==
    LET loads == <<"load_customer_data", "load_churn_model">>
    IN  The({IF got.status # "ok"
             THEN PageRun("2_Churn_Analysis", data_exists, got, loads, got.status)
             ELSE IF ~data_exists \/ got.model = NoneModel
             THEN PageRun("2_Churn_Analysis", data_exists, got,
                          loads \o <<"st.stop">>, "stopped")
             ELSE PageRun("2_Churn_Analysis", data_exists, got,
                          loads \o <<"model.feature_importances_">>, "rendered") :
             got \in {utils_load_churn_model(fs)}})

\* pages/5_Model_Performance.py: model is None stops the script
ModelPerformancePage(fs) ==
    LET loads == <<"load_churn_model">>
    IN  The({IF got.status # "ok"
             THEN PageRun("5_Model_Performance", TRUE, got, loads, got.status)
             ELSE IF got.model = NoneModel
             THEN PageRun("5_Model_Performance", TRUE, got,
                          loads \o <<"st.stop">>, "stopped")
             ELSE PageRun("5_Model_Performance", TRUE, got,
                          loads \o <<"model.feature_importances_">>, "rendered") :
             got \in {utils_load_churn_model(fs)}})

\* ------------------------------------------------ upload handling (webapp)
MaxUploadRows == 2

\* the text of a date cell that is not a date
Unparseable == NaN - 2

\* pd.to_datetime(errors='coerce'): NaT for a missing or an unparseable cell
to_datetime(v) == IF v \in {NaN, Unparseable} THEN NaN ELSE v

\* the rows a CSV file may hold, numbered: CustomerID missing or present, a
\* date cell unparseable or a date, Quantity and UnitPrice negative or
\* positive, TotalPrice negative or positive and other than Quantity * UnitPrice
RawRowCodes == 0..47

RawRow(code) ==
    [CustomerID |-> <<NaN, 1, 2>>[(code \div 16) + 1],
     InvoiceDate |-> <<Unparseable, 0>>[((code \div 8) % 2) + 1],
     Quantity |-> <<-1, 1>>[((code \div 4) % 2) + 1],
     UnitPrice |-> <<-1, 1>>[((code \div 2) % 2) + 1],
     TotalPrice |-> <<-1, 2>>[(code % 2) + 1]]

\* the column sets of an uploaded file: with or without CustomerID, the date
\* column named InvoiceDate or Date or absent, and the price columns
UploadColumnSets ==
    {ids \cup dates \cup prices :
        ids \in {{}, {"CustomerID"}},
        dates \in {{}, {"InvoiceDate"}, {"Date"}},
        prices \in {{}, {"Quantity"}, {"Quantity", "UnitPrice"}, {"TotalPrice"},
                    {"Quantity", "UnitPrice", "TotalPrice"}}}

\* pd.read_csv: the file's columns and its rows
read_csv(columns, codes) ==
    [columns |-> columns,
     rows |-> [i \in 1..Len(codes) |->
                 [c \in columns |->
                     IF c = "Date" THEN RawRow(codes[i]).InvoiceDate
                     ELSE RawRow(codes[i])[c]]]]

\* what a function that returns None after st.error leaves
Rejected == [status |-> "None", reported |-> "st.error", columns |-> {}, rows |-> <<>>]

clean_transaction_data_drop_all(frame) ==
    IF ~({"CustomerID", "InvoiceDate"} \subseteq frame.columns) THEN Rejected
    ELSE IF "TotalPrice" \notin frame.columns
            /\ ~({"Quantity", "UnitPrice"} \subseteq frame.columns)
    THEN [status |-> "ok", reported |-> "none",
          columns |-> frame.columns \cup {"TotalPrice"}, rows |-> <<>>]
    ELSE LET kept == SelectSeq(frame.rows, LAMBDA r : r.CustomerID # NaN)
             priced ==
                 IF "TotalPrice" \in frame.columns THEN kept
                 ELSE [i \in 1..Len(kept) |->
                         MergeRows(kept[i],
                             [TotalPrice |-> kept[i].Quantity * kept[i].UnitPrice])]
         IN  [status |-> "ok", reported |-> "none",
              columns |-> frame.columns \cup {"TotalPrice"},
              rows |-> SelectSeq(priced, LAMBDA r : r.TotalPrice > 0)]

\* rows without CustomerID are dropped, TotalPrice is created from Quantity and
\* UnitPrice where the file has no TotalPrice column, and the rows with
\* TotalPrice > 0 are kept
clean_transaction_data(frame) ==
    IF ~({"CustomerID", "InvoiceDate"} \subseteq frame.columns) THEN Rejected
    ELSE IF "TotalPrice" \notin frame.columns
            /\ ~({"Quantity", "UnitPrice"} \subseteq frame.columns)
    THEN Rejected
    ELSE LET kept == SelectSeq(frame.rows, LAMBDA r : r.CustomerID # NaN)
             priced ==
                 IF "TotalPrice" \in frame.columns THEN kept
                 ELSE [i \in 1..Len(kept) |->
                         MergeRows(kept[i],
                             [TotalPrice |-> kept[i].Quantity * kept[i].UnitPrice])]
         IN  [status |-> "ok", reported |-> "none",
              columns |-> frame.columns \cup {"TotalPrice"},
              rows |-> SelectSeq(priced, LAMBDA r : r.TotalPrice > 0)]

\* the scored rows that have all three scores (dropna), with RFM_Score and
\* Segment; ValueError where a binning and its fallback both raise
RfmScoredDropna(rfm, R, F, M) ==
    IF ~R.ok \/ ~F.ok \/ ~M.ok
    THEN [status |-> "ValueError", rows |-> <<>>]
    ELSE LET all == [i \in 1..Len(rfm) |->
                       MergeRows(rfm[i], [R_Score |-> R.codes[i],
                                          F_Score |-> F.codes[i],
                                          M_Score |-> M.codes[i]])]
             kept == SelectSeq(all, LAMBDA r :
                         NaN \notin {r.R_Score, r.F_Score, r.M_Score})
         IN  [status |-> "ok",
              rows |-> [i \in 1..Len(kept) |->
                  MergeRows(kept[i],
                      [RFM_Score |-> ScoreStr(kept[i].R_Score)
                                       \o ScoreStr(kept[i].F_Score)
                                       \o ScoreStr(kept[i].M_Score),
                       Segment |-> assign_segment(kept[i])])]]

compute_rfm_latest_as_reference(frame, reference_date) ==
    The({The({RfmScoredDropna(rfm, R, F, M) :
                R \in {QcutWithFallback(Column(rfm, "Recency"), RecencyLabels)},
                F \in {QcutOfRanks(Column(rfm, "Frequency"), DirectLabels)},
                M \in {QcutWithFallback(Column(rfm, "Monetary"), DirectLabels)}}) :
         rfm \in {RfmAggregate(frame, TenureReferenceDate(frame, reference_date))}})

compute_rfm(frame, reference_date) ==
    The({The({RfmScoredDropna(rfm, R, F, M) :
                R \in {QcutWithFallback(Column(rfm, "Recency"), RecencyLabels)},
                F \in {QcutOfRanks(Column(rfm, "Frequency"), DirectLabels)},
                M \in {QcutWithFallback(Column(rfm, "Monetary"), DirectLabels)}}) :
         rfm \in {RfmAggregate(frame, RfmReferenceDate(frame, reference_date))}})

\* the days of Recency at which the heuristic churn probability reaches 1
ChurnHorizonDays == 180

Min(a, b) == IF a <= b THEN a ELSE b

\* the columns process_uploaded_data adds to a customer's RFM row.  ChurnProb
\* = min(1.0, Recency / 180) and PredictedLTV_Next6Months = HistoricalLTV *
\* (1 - ChurnProb * 0.5) are kept exact as <<numerator, denominator>>.
UploadFeatures(cleaned, r) ==
    LET g == Group(cleaned, "CustomerID", r.CustomerID)
        ref_date == SeriesMax(Column(cleaned, "InvoiceDate"))
        churn == Min(ChurnHorizonDays, r.Recency)
    IN  MergeRows(r,
            [HistoricalLTV |-> r.Monetary,
             TenureDays |-> Days(ref_date, SeriesMin(Column(g, "InvoiceDate"))),
             AvgOrderValue |-> <<Sum(Column(g, "TotalPrice")), Len(g)>>,
             ChurnProb |-> <<churn, ChurnHorizonDays>>,
             PredictedLTV_Next6Months |->
                 <<r.Monetary * (2 * ChurnHorizonDays - churn), 2 * ChurnHorizonDays>>])

\* what the call returned or raised, the functions it went through, the
\* cleaned table it computed the features from and the customer table
process_uploaded_data(raw) ==
    The({IF cleaned.status # "ok"
         THEN [status |-> "None", reported |-> cleaned.reported,
               steps |-> <<"clean_transaction_data">>, cleaned |-> <<>>, rows |-> <<>>]
         ELSE The({IF rfm.status # "ok"
                   THEN [status |-> rfm.status, reported |-> "none",
                         steps |-> <<"clean_transaction_data", "compute_rfm">>,
                         cleaned |-> cleaned.rows, rows |-> <<>>]
                   ELSE [status |-> "ok", reported |-> "none",
                         steps |-> <<"clean_transaction_data", "compute_rfm">>,
                         cleaned |-> cleaned.rows,
                         rows |-> [i \in 1..Len(rfm.rows) |->
                                     UploadFeatures(cleaned.rows, rfm.rows[i])]] :
                   rfm \in {compute_rfm(cleaned.rows, None)}}) :
         cleaned \in {clean_transaction_data(raw)}})

\* app.py on an uploaded file: the date column is parsed, the file is
\* processed and the customer table is stored in the session; without a date
\* column, or when processing returns None, the script reports and stops
upload_handling(raw) ==
    LET date_col == IF "InvoiceDate" \in raw.columns THEN "InvoiceDate" ELSE "Date"
        parsed ==
            [columns |-> raw.columns,
             rows |-> [i \in 1..Len(raw.rows) |->
                         [c \in raw.columns |->
                             IF c = date_col THEN to_datetime(raw.rows[i][c])
                             ELSE raw.rows[i][c]]]]
    IN  IF date_col \notin raw.columns
        THEN [status |-> "stopped", reported |-> "st.error", steps |-> <<>>,
              returned |-> "none", cleaned |-> <<>>, customer_data |-> <<>>]
        ELSE The({IF out.status = "ok"
                  THEN [status |-> "stored", reported |-> "st.success",
                        steps |-> <<"process_uploaded_data">> \o out.steps,
                        returned |-> "table", cleaned |-> out.cleaned,
                        customer_data |-> out.rows]
                  ELSE IF out.status = "None"
                  THEN [status |-> "stopped", reported |-> "st.error",
                        steps |-> <<"process_uploaded_data">> \o out.steps,
                        returned |-> "None", cleaned |-> out.cleaned,
                        customer_data |-> <<>>]
                  ELSE [status |-> out.status, reported |-> "none",
                        steps |-> <<"process_uploaded_data">> \o out.steps,
                        returned |-> "none", cleaned |-> out.cleaned,
                        customer_data |-> <<>>] :
                  out \in {process_uploaded_data(parsed)}})

\* st.session_state after the upload branch: the table and its source are
\* stored when process_uploaded_data returned one, else nothing is written
session_after_upload_unconditional(state, out) ==
    [keys |-> state.keys \cup {"customer_data", "data_source"},
     customer_data |-> out.customer_data,
     data_source |-> "uploaded"]

session_after_upload(state, out) ==
    IF out.status = "stored"
    THEN [keys |-> state.keys \cup {"customer_data", "data_source"},
          customer_data |-> out.customer_data,
          data_source |-> "uploaded"]
    ELSE state

\* the default dataset on disk: absent, or a CSV file with its rows
DefaultDataset ==
    <<[CustomerID |-> 1, Segment |-> "Champions", RecommendedOffer |-> VipOffer],
      [CustomerID |-> 2, Segment |-> "Others", RecommendedOffer |-> NewsletterOffer]>>

DefaultFiles ==
    {[exists |-> FALSE, rows |-> <<>>], [exists |-> TRUE, rows |-> <<>>],
     [exists |-> TRUE, rows |-> DefaultDataset]}

\* an empty table when the file is absent, else its rows with CustomerID as a
\* string
load_customer_data(file) ==
    IF ~file.exists THEN <<>>
    ELSE [i \in 1..Len(file.rows) |->
            [file.rows[i] EXCEPT !.CustomerID = ScoreStr(file.rows[i].CustomerID)]]

\* st.session_state.get('data_source')
SessionGet(state, key) == IF key \in state.keys THEN state[key] ELSE "None"

session_after_no_upload_store_empty(state, file) ==
    IF "customer_data" \notin state.keys \/ SessionGet(state, "data_source") # "default"
    THEN [keys |-> state.keys \cup {"customer_data", "data_source"},
          customer_data |-> load_customer_data(file),
          data_source |-> "default"]
    ELSE state

\* st.session_state after the branch without an upload: the default dataset
\* is loaded unless it is the stored one, and stored when it is not empty
session_after_no_upload(state, file) ==
    IF "customer_data" \notin state.keys \/ SessionGet(state, "data_source") # "default"
    THEN IF load_customer_data(file) # <<>>
         THEN [keys |-> state.keys \cup {"customer_data", "data_source"},
               customer_data |-> load_customer_data(file),
               data_source |-> "default"]
         ELSE state
    ELSE state

\* the run of the page without an upload: it goes on to show the stored
\* table, or warns and stops when the session holds none
no_upload_handling(state, file) ==
    LET loads == "customer_data" \notin state.keys
                    \/ SessionGet(state, "data_source") # "default"
        after == session_after_no_upload(state, file)
    IN  [status |-> IF "customer_data" \in after.keys THEN "shown" ELSE "stopped",
         reported |-> IF "customer_data" \in after.keys THEN "none" ELSE "st.warning",
         steps |-> IF loads THEN <<"load_customer_data">> ELSE <<>>,
         returned |-> "none", cleaned |-> <<>>, customer_data |-> <<>>]

\* ------------------------------------------------------------------- state
NoCall ==
    [fn |-> "none", reference_date |-> None, churn_window_days |-> None,
     index |-> <<>>, status |-> "none", rows |-> <<>>]

Call(fn, reference_date, churn_window_days, index, result) ==
    [fn |-> fn, reference_date |-> reference_date,
     churn_window_days |-> churn_window_days, index |-> index,
     status |-> result.status, rows |-> result.rows]

NoRow == [R_Score |-> 1, F_Score |-> 1, M_Score |-> 1]

NoResult == [status |-> "none", rows |-> <<>>]

NoTraining ==
    [fn |-> "none", model_type |-> "none", status |-> "none", steps |-> <<>>,
     returns |-> <<>>]

IdleSegment == score_row = NoRow /\ segment_out = "none"

NoSecond == [fn |-> "none", reference_date |-> None, status |-> "none", rows |-> <<>>]

Second(fn, reference_date, result) ==
    [fn |-> fn, reference_date |-> reference_date, status |-> result.status,
     rows |-> result.rows]

IdleFeatures == df = <<>> /\ ret = NoCall /\ also = NoSecond

IdleOffers == customers_df = <<>> /\ customers = NoResult /\ summary = NoResult

IdleTrain ==
    /\ customer_features = <<>>
    /\ churn_labels = <<>>
    /\ prepared = NoResult
    /\ trained = NoTraining

NoLoad ==
    [fn |-> "none", path |-> "none", status |-> "none", model |-> NoneModel,
     reported |-> "none"]

Loaded(fn, path, got) ==
    [fn |-> fn, path |-> path, status |-> got.status, model |-> got.model,
     reported |-> got.reported]

NoPage ==
    [name |-> "none", data_exists |-> FALSE, model |-> NoneModel,
     reported |-> "none", steps |-> <<>>, status |-> "none"]

IdleArtifacts ==
    /\ files = [p \in Paths |-> NoFile]
    /\ saved = [p \in Paths |-> NoneModel]
    /\ saves = 0
    /\ loaded = NoLoad
    /\ page = NoPage

NoUpload ==
    [status |-> "none", reported |-> "none", steps |-> <<>>, returned |-> "none",
     cleaned |-> <<>>, customer_data |-> <<>>]

NoSession == [keys |-> {}, customer_data |-> <<>>, data_source |-> "none"]

IdleUpload ==
    /\ raw_df = [columns |-> {}, rows |-> <<>>]
    /\ uploaded = NoUpload
    /\ session = NoSession

NoScore == [column |-> "none", ok |-> FALSE, codes |-> <<>>]

IdleScore == metric = <<>> /\ scored = NoScore

\* reference dates a caller passes: none, one before and one after every
\* transaction
ReferenceDates == {None, 0, MaxTick + TicksPerDay}

ChurnWindows == 0..MaxWindow

\* the index of a feature table that covers the whole customer base
FeatureIndex == SortedSeq(Customers)

\* ------------------------------------- segment assignment on its own
InitSegment ==
    /\ score_row \in [R_Score : Scores, F_Score : Scores, M_Score : Scores]
    /\ segment_out = "none"
    /\ IdleFeatures
    /\ IdleOffers
    /\ IdleTrain
    /\ IdleArtifacts
    /\ IdleUpload
    /\ IdleScore

AssignSegment ==
    /\ segment_out = "none"
    /\ segment_out' = assign_segment(score_row)
    /\ UNCHANGED <<score_row, feature_vars, offer_vars, train_vars, artifact_vars,
                   upload_vars, score_vars>>

NextSegment == AssignSegment

SpecSegment == InitSegment /\ [][NextSegment]_vars

\* ------------------------------------------- the feature pipeline
\* a behaviour is one call on the table it was given: the functions keep no
\* state between calls
Init ==
    /\ \E n \in 1..MaxRows :
        \E t \in [1..n -> TxnRows] : RowsInOrder(t) /\ df = t
    /\ ret = NoCall
    /\ also = NoSecond
    /\ IdleSegment
    /\ IdleOffers
    /\ IdleTrain
    /\ IdleArtifacts
    /\ IdleUpload
    /\ IdleScore

CalculateRfm ==
    \E reference_date \in ReferenceDates :
        /\ ret.fn = "none"
        /\ ret' = Call("calculate_rfm", reference_date, None, <<>>,
                       calculate_rfm(df, reference_date))
        /\ UNCHANGED <<df, also, segment_vars, offer_vars, train_vars, artifact_vars,
                       upload_vars, score_vars>>

BuildAllFeatures ==
    /\ ret.fn = "none"
    /\ ret' = Call("build_all_features", None, None, <<>>, build_all_features(df))
    /\ UNCHANGED <<df, also, segment_vars, offer_vars, train_vars, artifact_vars,
                   upload_vars, score_vars>>

DefineChurnLabels ==
    \E reference_date \in ReferenceDates, churn_window_days \in ChurnWindows,
       index \in {FeatureIndex} :
        /\ ret.fn = "none"
        /\ ret' = Call("define_churn_labels", reference_date, churn_window_days, index,
                       [status |-> "ok",
                        rows |-> define_churn_labels(df, index, churn_window_days,
                                                     reference_date)])
        /\ UNCHANGED <<df, also, segment_vars, offer_vars, train_vars, artifact_vars,
                       upload_vars, score_vars>>

\* a second function run on the table calculate_rfm was just run on
AddTenureFeatures ==
    \E reference_date \in ReferenceDates :
        /\ ret.fn = "calculate_rfm"
        /\ also.fn = "none"
        /\ also' = Second("add_tenure_features", reference_date,
                          [status |-> "ok",
                           rows |-> add_tenure_features(df, reference_date)])
        /\ UNCHANGED <<df, ret, segment_vars, offer_vars, train_vars, artifact_vars,
                       upload_vars, score_vars>>

ComputeRfm ==
    \E reference_date \in ReferenceDates :
        /\ ret.fn = "calculate_rfm"
        /\ also.fn = "none"
        /\ also' = Second("compute_rfm", reference_date,
                          compute_rfm(df, reference_date))
        /\ UNCHANGED <<df, ret, segment_vars, offer_vars, train_vars, artifact_vars,
                       upload_vars, score_vars>>

Next ==
    \/ CalculateRfm
    \/ BuildAllFeatures
    \/ DefineChurnLabels
    \/ AddTenureFeatures
    \/ ComputeRfm

Spec == Init /\ [][Next]_vars

\* ------------------------------------------------- the offer recommender
OfferSegments == Segments \cup {"Hibernating"}

\* churn probabilities at and around the two thresholds
ChurnProbs == {LoyalChurnThreshold, OthersChurnThreshold, OthersChurnThreshold + 1}

\* a scored table of n customers, CustomerID i a column, in row i; the
\* predicted LTV is the realised one
ScoredTable(n, segment, churn_prob, ltv) ==
    [i \in 1..n |->
        [CustomerID |-> i, Segment |-> segment[i], ChurnProb |-> churn_prob[i],
         HistoricalLTV |-> ltv[i], PredictedLTV_Next6Months |-> ltv[i]]]

InitOffer ==
    /\ \E n \in 1..MaxScored :
        \E segment \in [1..n -> OfferSegments], churn_prob \in [1..n -> ChurnProbs],
           ltv \in [1..n -> 1..MaxLTV] :
            customers_df = ScoredTable(n, segment, churn_prob, ltv)
    /\ customers = NoResult
    /\ summary = NoResult
    /\ IdleSegment
    /\ IdleFeatures
    /\ IdleTrain
    /\ IdleArtifacts
    /\ IdleUpload
    /\ IdleScore

GenerateOfferRecommendations ==
    /\ customers.status = "none"
    /\ \E out \in {generate_offer_recommendations(customers_df)} :
        /\ customers_df' = out.customers_df
        /\ customers' = [status |-> "ok", rows |-> out.customers]
    /\ UNCHANGED <<summary, segment_vars, feature_vars, train_vars, artifact_vars,
                   upload_vars, score_vars>>

CreateMarketingCampaignSummary ==
    /\ customers.status = "ok"
    /\ summary.status = "none"
    /\ summary' = create_marketing_campaign_summary(customers.rows)
    /\ UNCHANGED <<customers_df, customers, segment_vars, feature_vars, train_vars,
                   artifact_vars, upload_vars, score_vars>>

NextOffer == GenerateOfferRecommendations \/ CreateMarketingCampaignSummary

SpecOffer == InitOffer /\ [][NextOffer]_vars

\* ------------------------- the campaign summary of a table given by a caller
\* the table carries a RecommendedOffer column of its own, whose offers need
\* not be among those of offer_logic
InitSummary ==
    /\ \E n \in 1..MaxScored :
        \E offer \in [1..n -> Range(OfferOrder)], ltv \in [1..n -> 1..MaxLTV] :
            LET scored_table == ScoredTable(n, [i \in 1..n |-> "Others"],
                                           [i \in 1..n |-> 0], ltv)
            IN  customers =
                    [status |-> "ok",
                     rows |-> [i \in 1..n |->
                                 MergeRows([RecommendedOffer |-> offer[i]],
                                           scored_table[i])]]
    /\ customers_df = <<>>
    /\ summary = NoResult
    /\ IdleSegment
    /\ IdleFeatures
    /\ IdleTrain
    /\ IdleArtifacts
    /\ IdleUpload
    /\ IdleScore

NextSummary == CreateMarketingCampaignSummary

SpecSummary == InitSummary /\ [][NextSummary]_vars

\* --------------------------- the offer recommender on a table lacking columns
\* the columns offer_logic reads with row.get
OptionalColumns == {"ChurnProb", "PredictedLTV_Next6Months"}

\* the table without the columns in cols
DropColumns(frame, cols) ==
    [i \in 1..Len(frame) |-> [c \in (DOMAIN frame[i]) \ cols |-> frame[i][c]]]

InitOfferAbsent ==
    /\ \E n \in 1..MaxScored :
        \E segment \in [1..n -> OfferSegments], churn_prob \in [1..n -> ChurnProbs],
           ltv \in [1..n -> 1..MaxLTV], cols \in (SUBSET OptionalColumns) \ {{}} :
            customers_df = DropColumns(ScoredTable(n, segment, churn_prob, ltv), cols)
    /\ customers = NoResult
    /\ summary = NoResult
    /\ IdleSegment
    /\ IdleFeatures
    /\ IdleTrain
    /\ IdleArtifacts
    /\ IdleUpload
    /\ IdleScore

SpecOfferAbsent == InitOfferAbsent /\ [][NextOffer]_vars

\* ------------------------------------------------------- model training
\* a feature table of n customers: Recency may be missing, the other feature
\* columns are present
FeatureTable(n, recency) ==
    [i \in 1..n |->
        [CustomerID |-> i, Recency |-> recency[i], Frequency |-> 1, Monetary |-> 1,
         TenureDays |-> 1, AvgOrderValue |-> 1]]

ModelTypes == {"random_forest", "xgboost", "linear", "svm"}

Training(fn, model_type, result) ==
    [fn |-> fn, model_type |-> model_type, status |-> result.status,
     steps |-> result.steps, returns |-> result.returns]

InitTrain ==
    /\ \E n \in 1..MaxSamples :
        /\ \E recency \in [1..n -> (1..MaxFeature) \cup {NaN}] :
            customer_features = FeatureTable(n, recency)
        /\ churn_labels \in [1..n -> {0, 1}]
    /\ prepared = NoResult
    /\ trained = NoTraining
    /\ IdleSegment
    /\ IdleFeatures
    /\ IdleOffers
    /\ IdleArtifacts
    /\ IdleUpload
    /\ IdleScore

PrepareFeaturesAndLabels ==
    /\ prepared.status = "none"
    /\ prepared' = prepare_features_and_labels(customer_features, churn_labels,
                                               FeatureCols)
    /\ UNCHANGED <<customer_features, churn_labels, trained, segment_vars,
                   feature_vars, offer_vars, artifact_vars, upload_vars, score_vars>>

FitOutcomes == IF HasNull(prepared.rows, FeatureCols) THEN BOOLEAN ELSE {FALSE}

TrainChurnModel ==
    \E model_type \in ModelTypes, tune_hyperparams \in BOOLEAN,
       fit_raises \in FitOutcomes :
        /\ prepared.status = "ok"
        /\ trained.fn = "none"
        /\ trained' = Training("train_churn_model", model_type,
                               train_churn_model(prepared.rows, prepared.y, model_type,
                                                 tune_hyperparams, fit_raises))
        /\ UNCHANGED <<customer_features, churn_labels, prepared, segment_vars,
                       feature_vars, offer_vars, artifact_vars, upload_vars, score_vars>>

TrainPredictiveLtvModel ==
    \E model_type \in ModelTypes, fit_raises \in FitOutcomes :
        /\ prepared.status = "ok"
        /\ trained.fn = "none"
        /\ trained' = Training("train_predictive_ltv_model", model_type,
                               train_predictive_ltv_model(prepared.rows,
                                   Column(customer_features, "Monetary"), model_type,
                                   fit_raises))
        /\ UNCHANGED <<customer_features, churn_labels, prepared, segment_vars,
                       feature_vars, offer_vars, artifact_vars, upload_vars, score_vars>>

NextTrain == PrepareFeaturesAndLabels \/ TrainChurnModel \/ TrainPredictiveLtvModel

SpecTrain == InitTrain /\ [][NextTrain]_vars

\* ------------------------------------------------------ the model artifacts
\* models are saved, then a loader is called or a dashboard page is run
InitArtifacts ==
    /\ IdleArtifacts
    /\ IdleUpload
    /\ IdleScore
    /\ IdleSegment
    /\ IdleFeatures
    /\ IdleOffers
    /\ IdleTrain

Untouched ==
    UNCHANGED <<segment_vars, feature_vars, offer_vars, train_vars, upload_vars,
                score_vars>>

SaveModel ==
    \E model \in Models, filepath \in Paths :
        /\ saves < MaxSaves /\ loaded.fn = "none" /\ page.name = "none"
        /\ files' = save_model(files, model, filepath)
        /\ saved' = [saved EXCEPT ![filepath] = model]
        /\ saves' = saves + 1
        /\ UNCHANGED <<loaded, page>>
        /\ Untouched

SaveLtvModel ==
    \E model \in Models, filepath \in Paths :
        /\ saves < MaxSaves /\ loaded.fn = "none" /\ page.name = "none"
        /\ files' = save_ltv_model(files, model, filepath)
        /\ saved' = [saved EXCEPT ![filepath] = model]
        /\ saves' = saves + 1
        /\ UNCHANGED <<loaded, page>>
        /\ Untouched

LoadModel ==
    \E filepath \in Paths :
        /\ loaded.fn = "none" /\ page.name = "none"
        /\ loaded' = Loaded("load_model", filepath, load_model(files, filepath))
        /\ UNCHANGED <<files, saved, saves, page>>
        /\ Untouched

LoadLtvModel ==
    \E filepath \in Paths :
        /\ loaded.fn = "none" /\ page.name = "none"
        /\ loaded' = Loaded("load_ltv_model", filepath, load_ltv_model(files, filepath))
        /\ UNCHANGED <<files, saved, saves, page>>
        /\ Untouched

DashboardLoadChurnModel ==
    /\ loaded.fn = "none" /\ page.name = "none"
    /\ loaded' = Loaded("utils.load_churn_model", DashboardChurnPath,
                        utils_load_churn_model(files))
    /\ UNCHANGED <<files, saved, saves, page>>
    /\ Untouched

DashboardLoadLtvModel ==
    /\ loaded.fn = "none" /\ page.name = "none"
    /\ loaded' = Loaded("utils.load_ltv_model", DashboardLtvPath,
                        utils_load_ltv_model(files))
    /\ UNCHANGED <<files, saved, saves, page>>
    /\ Untouched

RunChurnAnalysisPage ==
    \E data_exists \in BOOLEAN :
        /\ loaded.fn = "none" /\ page.name = "none"
        /\ page' = ChurnAnalysisPage(files, data_exists)
        /\ UNCHANGED <<files, saved, saves, loaded>>
        /\ Untouched

RunModelPerformancePage ==
    /\ loaded.fn = "none" /\ page.name = "none"
    /\ page' = ModelPerformancePage(files)
    /\ UNCHANGED <<files, saved, saves, loaded>>
    /\ Untouched

NextArtifacts ==
    \/ SaveModel
    \/ SaveLtvModel
    \/ LoadModel
    \/ LoadLtvModel
    \/ DashboardLoadChurnModel
    \/ DashboardLoadLtvModel
    \/ RunChurnAnalysisPage
    \/ RunModelPerformancePage

SpecArtifacts == InitArtifacts /\ [][NextArtifacts]_vars

\* ------------------------------------------------------- an uploaded file
InitUpload ==
    /\ \E columns \in UploadColumnSets, n \in 1..MaxUploadRows :
        \E codes \in [1..n -> RawRowCodes] :
            /\ \A i \in 1..(n - 1) : codes[i] <= codes[i + 1]
            /\ raw_df = read_csv(columns, codes)
    /\ uploaded = NoUpload
    /\ session = NoSession
    /\ IdleSegment
    /\ IdleFeatures
    /\ IdleOffers
    /\ IdleTrain
    /\ IdleArtifacts
    /\ IdleScore

HandleUpload ==
    /\ uploaded.status = "none"
    /\ \E out \in {upload_handling(raw_df)} :
        /\ uploaded' = out
        /\ session' = session_after_upload(session, out)
    /\ UNCHANGED <<raw_df, segment_vars, feature_vars, offer_vars, train_vars,
                   artifact_vars, score_vars>>

NextUpload == HandleUpload

SpecUpload == InitUpload /\ [][NextUpload]_vars

\* ------------------------------------- a session of the dashboard's main page
\* the files a user uploads in the course of a session: column sets that
\* pass, that lack the date column, that name it Date, or that lack
\* CustomerID, and rows of one or two customers, one date unparseable
SessionColumnSets ==
    {{"CustomerID", "InvoiceDate", "TotalPrice"},
     {"CustomerID", "InvoiceDate", "Quantity", "UnitPrice"},
     {"CustomerID", "Date", "TotalPrice"},
     {"CustomerID", "TotalPrice"},
     {"InvoiceDate", "TotalPrice"}}

SessionRowCodes ==
    {<<31>>, <<47>>, <<31, 47>>, <<25, 47>>, <<31, 31, 47>>, <<31, 47, 47>>, <<31, 39>>}

SessionFiles ==
    {read_csv(columns, codes) : columns \in SessionColumnSets, codes \in SessionRowCodes}

InitSession ==
    /\ IdleUpload
    /\ IdleSegment
    /\ IdleFeatures
    /\ IdleOffers
    /\ IdleTrain
    /\ IdleArtifacts
    /\ IdleScore

\* a run of the page with a file in the uploader
RunWithUpload ==
    \E file \in SessionFiles :
        /\ raw_df' = file
        /\ \E out \in {upload_handling(file)} :
            /\ uploaded' = out
            /\ session' = session_after_upload(session, out)
        /\ UNCHANGED <<segment_vars, feature_vars, offer_vars, train_vars,
                       artifact_vars, score_vars>>

\* a run of the page with no file in the uploader
RunWithoutUpload ==
    \E file \in DefaultFiles :
        /\ raw_df' = [columns |-> {}, rows |-> <<>>]
        /\ uploaded' = no_upload_handling(session, file)
        /\ session' = session_after_no_upload(session, file)
        /\ UNCHANGED <<segment_vars, feature_vars, offer_vars, train_vars,
                       artifact_vars, score_vars>>

NextSession == RunWithUpload \/ RunWithoutUpload

SpecSession == InitSession /\ [][NextSession]_vars

\* ----------------------------------------- the scoring of one metric column
MaxMetric == 4
MaxMetricLen == 7

Scored(column, result) ==
    [column |-> column, ok |-> result.ok, codes |-> result.codes]

\* a metric column of up to MaxMetricLen customers, taken in ascending order:
\* rank(method='first') then breaks ties in the order of the CustomerID
InitScore ==
    /\ \E n \in 1..MaxMetricLen :
        \E x \in [1..n -> 1..MaxMetric] :
            /\ \A i \in 1..(n - 1) : x[i] <= x[i + 1]
            /\ metric = x
    /\ scored = NoScore
    /\ IdleSegment
    /\ IdleFeatures
    /\ IdleOffers
    /\ IdleTrain
    /\ IdleArtifacts
    /\ IdleUpload

ScoreUnchanged ==
    UNCHANGED <<metric, segment_vars, feature_vars, offer_vars, train_vars,
                artifact_vars, upload_vars>>

\* rfm['R_Score'] of a table whose Recency column is metric
ScoreRecency ==
    /\ scored.column = "none"
    /\ scored' = Scored("Recency", QcutWithFallback(metric, RecencyLabels))
    /\ ScoreUnchanged

\* rfm['F_Score'] of a table whose Frequency column is metric
ScoreFrequency ==
    /\ scored.column = "none"
    /\ scored' = Scored("Frequency", QcutOfRanks(metric, DirectLabels))
    /\ ScoreUnchanged

\* rfm['M_Score'] of a table whose Monetary column is metric
ScoreMonetary ==
    /\ scored.column = "none"
    /\ scored' = Scored("Monetary", QcutWithFallback(metric, DirectLabels))
    /\ ScoreUnchanged

NextScore == ScoreRecency \/ ScoreFrequency \/ ScoreMonetary

SpecScore == InitScore /\ [][NextScore]_vars

\* ===================================================================== claims
\* C1: for every score triple in {1..5}^3 assign_segment returns one of the
\* five segments, and it is the result of the first matching rule in the
\* order Champions, Loyal, At Risk, New, Others.
C1_SegmentFirstMatch ==
    segment_out # "none" =>
        LET r == score_row.R_Score
            f == score_row.F_Score
            m == score_row.M_Score
            rule1 == r >= 4 /\ f >= 4 /\ m >= 4
            rule2 == r >= 3 /\ f >= 3 /\ m >= 3
            rule3 == r <= 2 /\ (f >= 4 \/ m >= 4)
            rule4 == r >= 4 /\ f <= 2 /\ m <= 2
        IN  /\ segment_out \in Segments
            /\ rule1 => segment_out = "Champions"
            /\ ~rule1 /\ rule2 => segment_out = "Loyal"
            /\ ~rule1 /\ ~rule2 /\ rule3 => segment_out = "At Risk"
            /\ ~rule1 /\ ~rule2 /\ ~rule3 /\ rule4 => segment_out = "New"
            /\ ~rule1 /\ ~rule2 /\ ~rule3 /\ ~rule4 => segment_out = "Others"

\* the triple 5,5,5 satisfies rules 1 and 2 and was assigned Champions
C1_Witness ==
    /\ score_row = [R_Score |-> 5, F_Score |-> 5, M_Score |-> 5]
    /\ segment_out = "Champions"

Returned(fns) == ret.fn \in fns /\ ret.status = "ok"

RowsOf(c) == {i \in 1..Len(ret.rows) : ret.rows[i].CustomerID = c}

\* C2: on every table on which calculate_rfm returns, every customer row has
\* R_Score, F_Score and M_Score in 1..5, none missing.
C2_ScoresInRange ==
    Returned({"calculate_rfm", "build_all_features"}) =>
        \A i \in 1..Len(ret.rows) :
            /\ ret.rows[i].R_Score \in Scores
            /\ ret.rows[i].F_Score \in Scores
            /\ ret.rows[i].M_Score \in Scores

\* calculate_rfm returned for two customers tied on Recency, whose R_Score
\* the rank-based fallback produced
C2_Witness ==
    /\ Returned({"calculate_rfm"})
    /\ \E i, j \in 1..Len(ret.rows) :
        /\ i # j
        /\ ret.rows[i].Recency = ret.rows[j].Recency
        /\ ret.rows[i].R_Score # ret.rows[j].R_Score

\* a cleaned table: every InvoiceDate parsed
Cleaned(frame) == \A i \in 1..Len(frame) : frame[i].InvoiceDate # NaN

\* C3: quantile binning never ends in a fatal error: calculate_rfm succeeds
\* on every non-empty cleaned table, a single customer or ties included.
C3_BinningNeverFatal ==
    (ret.fn \in {"calculate_rfm", "build_all_features"} /\ Cleaned(df)) =>
        ret.status = "ok"

DistinctCustomers(frame) == {frame[i].CustomerID : i \in 1..Len(frame)}

\* C4: the feature table calculate_rfm / build_all_features returns has
\* exactly one row per distinct CustomerID of the transaction table.
C4_OneRowPerCustomer ==
    Returned({"calculate_rfm", "build_all_features"}) =>
        /\ \A c \in DistinctCustomers(df) : Cardinality(RowsOf(c)) = 1
        /\ Len(ret.rows) = Cardinality(DistinctCustomers(df))

\* build_all_features returned for a table in which a customer has two
\* transactions, after joining the tenure and order-value features
C4_Witness ==
    /\ Returned({"build_all_features"})
    /\ Cleaned(df)
    /\ \E c \in DistinctCustomers(df) : Len(Group(df, "CustomerID", c)) = 2
    /\ \A i \in 1..Len(ret.rows) : ret.rows[i].TenureDays # NaN

\* the customer's parsed purchase dates
PurchaseDates(c) ==
    {df[i].InvoiceDate : i \in {n \in 1..Len(df) : df[n].CustomerID = c}} \ {NaN}

\* the reference date of the call: the one passed, else the latest transaction
ChurnReference ==
    IF ret.reference_date # None THEN ret.reference_date
    ELSE SeriesMax(Column(df, "InvoiceDate"))

\* C5: define_churn_labels returns one label per customer of the index, 1 iff
\* the customer has no transaction or the whole days from the last purchase
\* to the reference date exceed churn_window_days.
C5_ChurnLabel ==
    ret.fn = "define_churn_labels" =>
        /\ Len(ret.rows) = Len(ret.index)
        /\ \A i \in 1..Len(ret.index) :
            LET c == ret.index[i]
                churned ==
                    \/ c \notin DistinctCustomers(df)
                    \/ \E last \in PurchaseDates(c) :
                        /\ \A d \in PurchaseDates(c) : d <= last
                        /\ ChurnReference # NaN
                        /\ (ChurnReference - last) \div TicksPerDay
                               > ret.churn_window_days
            IN  /\ ret.rows[i].CustomerID = c
                /\ ret.rows[i].ChurnLabel = (IF churned THEN 1 ELSE 0)

\* one call labelled a customer without transactions 1 and a customer whose
\* days since the last purchase equal the window 0
C5_Witness ==
    /\ ret.fn = "define_churn_labels"
    /\ \E i, j \in 1..Len(ret.rows) :
        /\ ret.rows[i].CustomerID \notin DistinctCustomers(df)
        /\ ret.rows[i].ChurnLabel = 1
        /\ ret.rows[j].ChurnLabel = 0
        /\ \E last \in PurchaseDates(ret.rows[j].CustomerID) :
            /\ \A d \in PurchaseDates(ret.rows[j].CustomerID) : d <= last
            /\ ChurnReference # NaN
            /\ (ChurnReference - last) \div TicksPerDay = ret.churn_window_days

AllOffers ==
    {VipOffer, PointsOffer, MissYouOffer, ReferralOffer, HighValueAtRiskOffer,
     ReEngagementOffer, WelcomeOffer, NextOrderOffer, FlashSaleOffer, NewsletterOffer}

\* C6: every customer gets exactly one of the ten offers, by the decision
\* table, with p90 and median of HistoricalLTV taken over the whole input
\* table and every comparison strict.
C6_OfferDecisionTable ==
    customers.status = "ok" =>
        /\ Len(customers.rows) = Len(customers_df)
        /\ \A i \in 1..Len(customers.rows) :
            LET row == customers.rows[i]
                offer == row.RecommendedOffer
                above_p90 == 10 * row.HistoricalLTV > HighLtvThreshold10(customers.rows)
                above_median == 2 * row.HistoricalLTV > MedianLtv2(customers.rows)
                other == row.Segment \notin {"Champions", "Loyal", "At Risk", "New"}
            IN  /\ row.CustomerID = customers_df[i].CustomerID
                /\ offer \in AllOffers
                /\ row.Segment = "Champions" /\ above_p90 => offer = VipOffer
                /\ row.Segment = "Champions" /\ ~above_p90 => offer = PointsOffer
                /\ row.Segment = "Loyal" /\ row.ChurnProb > 50 => offer = MissYouOffer
                /\ row.Segment = "Loyal" /\ row.ChurnProb <= 50 => offer = ReferralOffer
                /\ row.Segment = "At Risk" /\ above_median => offer = HighValueAtRiskOffer
                /\ row.Segment = "At Risk" /\ ~above_median => offer = ReEngagementOffer
                /\ row.Segment = "New" => offer = WelcomeOffer
                /\ other /\ row.ChurnProb > 70 => offer = NextOrderOffer
                /\ other /\ row.ChurnProb <= 70 /\ above_median => offer = FlashSaleOffer
                /\ other /\ row.ChurnProb <= 70 /\ ~above_median => offer = NewsletterOffer

\* a Loyal customer whose ChurnProb equals the 0.5 threshold got the referral
\* bonus, next to a customer of an unlisted segment whose HistoricalLTV equals
\* the median and who got the newsletter
C6_Witness ==
    /\ customers.status = "ok"
    /\ \E i, j \in 1..Len(customers.rows) :
        /\ customers.rows[i].Segment = "Loyal"
        /\ customers.rows[i].ChurnProb = 50
        /\ customers.rows[i].RecommendedOffer = ReferralOffer
        /\ customers.rows[j].Segment = "Hibernating"
        /\ 2 * customers.rows[j].HistoricalLTV = MedianLtv2(customers.rows)
        /\ customers.rows[j].RecommendedOffer = NewsletterOffer

SameInputs(a, b) ==
    /\ a.Segment = b.Segment
    /\ a.ChurnProb = b.ChurnProb
    /\ a.HistoricalLTV = b.HistoricalLTV
    /\ a.PredictedLTV_Next6Months = b.PredictedLTV_Next6Months

\* C7: customers with identical Segment, ChurnProb, HistoricalLTV and
\* PredictedLTV get the identical offer, and the call leaves the input table
\* as it was, without a RecommendedOffer column.
C7_DeterministicAndPure ==
    /\ [](customers.status = "ok" =>
            /\ \A i, j \in 1..Len(customers.rows) :
                SameInputs(customers.rows[i], customers.rows[j]) =>
                    customers.rows[i].RecommendedOffer = customers.rows[j].RecommendedOffer
            /\ \A i \in 1..Len(customers_df) :
                "RecommendedOffer" \notin DOMAIN customers_df[i])
    /\ [][customers_df' = customers_df]_vars

\* two customers with identical inputs were given an offer
C7_Witness ==
    /\ customers.status = "ok"
    /\ \E i, j \in 1..Len(customers.rows) :
        /\ i # j
        /\ SameInputs(customers.rows[i], customers.rows[j])
        /\ customers.rows[i].Segment = "Others"
        /\ customers.rows[i].RecommendedOffer = NextOrderOffer

\* C8: the CustomerCount of the summary rows adds up to the number of scored
\* customers.
C8_CountsAddUp ==
    summary.status = "ok" =>
        Sum(Column(summary.rows, "CustomerCount")) = Len(customers.rows)

\* a summary with an offer made to two customers
C8_Witness ==
    /\ summary.status = "ok"
    /\ \E n \in 1..Len(summary.rows) : summary.rows[n].CustomerCount = 2

SupportedModelTypes ==
    IF trained.fn = "train_churn_model" THEN {"random_forest", "xgboost"}
    ELSE {"linear", "random_forest"}

\* C9: a model_type that is not supported is rejected with an error before
\* any train/test split or fit is performed.
C9_RejectedBeforeSplit ==
    (trained.fn # "none" /\ trained.model_type \notin SupportedModelTypes) =>
        /\ trained.status = "ValueError"
        /\ trained.steps = <<>>

ColumnPresent(col) ==
    \E i \in 1..Len(customer_features) : customer_features[i][col] # NaN

\* C10: X has no missing value whenever every feature column has a present
\* value, and preparation fails when a feature column is entirely missing.
C10_MedianOrFatal ==
    prepared.status # "none" =>
        /\ (\A n \in 1..Len(FeatureCols) : ColumnPresent(FeatureCols[n])) =>
            /\ prepared.status = "ok"
            /\ ~HasNull(prepared.rows, FeatureCols)
        /\ (\E n \in 1..Len(FeatureCols) : ~ColumnPresent(FeatureCols[n])) =>
            prepared.status # "ok"

\* the decimal digit of a score
Digit(n) == <<"1", "2", "3", "4", "5">>[n]

\* C14: on every row calculate_rfm returns, RFM_Score is a string of length 3:
\* the digit of R_Score, then of F_Score, then of M_Score.
C14_RfmScoreString ==
    Returned({"calculate_rfm", "build_all_features"}) =>
        \A i \in 1..Len(ret.rows) :
            /\ Len(ret.rows[i].RFM_Score) = 3
            /\ ret.rows[i].RFM_Score =
                   Digit(ret.rows[i].R_Score) \o Digit(ret.rows[i].F_Score)
                       \o Digit(ret.rows[i].M_Score)

\* a returned row whose three scores are not all the same digit
C14_Witness ==
    /\ Returned({"calculate_rfm"})
    /\ \E i \in 1..Len(ret.rows) :
        /\ ret.rows[i].R_Score = 5
        /\ ret.rows[i].F_Score = 1
        /\ ret.rows[i].RFM_Score \in {"511", "515"}

\* C15: when the reference date is the default one or is not before the
\* latest InvoiceDate, every Recency calculate_rfm returns is a whole number
\* of days >= 0.
C15_RecencyNonNegative ==
    (/\ Returned({"calculate_rfm", "build_all_features"})
     /\ \/ ret.reference_date = None
        \/ ret.reference_date >= SeriesMax(Column(df, "InvoiceDate"))) =>
        \A i \in 1..Len(ret.rows) : ret.rows[i].Recency \in Nat

\* calculate_rfm returned for a reference date equal to the latest
\* InvoiceDate, with a customer of Recency 0
C15_Witness ==
    /\ Returned({"calculate_rfm"})
    /\ ret.reference_date = SeriesMax(Column(df, "InvoiceDate"))
    /\ \E i \in 1..Len(ret.rows) : ret.rows[i].Recency = 0

\* C16: what train_churn_model returns holds the fitted model, the ranked
\* feature importances and the train/test partition.
C16_ReturnsImportances ==
    (trained.fn = "train_churn_model" /\ trained.status = "ok") =>
        {"model", "feat_imp", "X_train", "X_test", "y_train", "y_test"}
            \subseteq Range(trained.returns)

\* C19: on a table without a ChurnProb or a predicted-LTV column the
\* recommender still returns an offer for every customer, and without ChurnProb
\* every Loyal customer gets the referral bonus and no customer of another
\* segment gets the 15%-off-next-order offer.
C19_AbsentChurnProbIsZero ==
    customers.status # "none" =>
        /\ customers.status = "ok"
        /\ Len(customers.rows) = Len(customers_df)
        /\ \A i \in 1..Len(customers.rows) :
            LET row == customers.rows[i]
            IN  /\ row.RecommendedOffer \in AllOffers
                /\ "ChurnProb" \notin DOMAIN customers_df[i] =>
                    /\ row.Segment = "Loyal" => row.RecommendedOffer = ReferralOffer
                    /\ row.Segment # "Loyal" => row.RecommendedOffer # NextOrderOffer

\* a table with neither column, a Loyal customer given the referral bonus
\* and a customer of an unlisted segment given another offer
C19_Witness ==
    /\ customers.status = "ok"
    /\ \E i, j \in 1..Len(customers.rows) :
        /\ DOMAIN customers_df[i] \cap OptionalColumns = {}
        /\ customers.rows[i].Segment = "Loyal"
        /\ customers.rows[i].RecommendedOffer = ReferralOffer
        /\ customers.rows[j].Segment = "Hibernating"
        /\ customers.rows[j].RecommendedOffer \in {FlashSaleOffer, NewsletterOffer}

C18_AbsentArtifact ==
    /\ (loaded.fn \in {"utils.load_churn_model", "utils.load_ltv_model"}
            /\ files[loaded.path] = NoFile) =>
        /\ loaded.status = "ok"
        /\ loaded.model = NoneModel
        /\ loaded.reported \in {"st.error", "st.warning"}
    /\ (loaded.fn \in {"load_model", "load_ltv_model"}
            /\ files[loaded.path] = NoFile) =>
        loaded.status = "FileNotFoundError"
    /\ (page.name # "none" /\ files[DashboardChurnPath] = NoFile) =>
        /\ page.status = "stopped"
        /\ page.reported = "st.error"
        /\ "model.feature_importances_" \notin Range(page.steps)

\* the churn page stopped for want of the model, the customer data being
\* there and a model being saved at the core default path
C18_Witness ==
    /\ page.name = "2_Churn_Analysis"
    /\ page.data_exists
    /\ page.status = "stopped"
    /\ files[CoreChurnPath] # NoFile

\* the upload went as far as computing the features from the cleaned table
ReachedFeatures == "compute_rfm" \in Range(uploaded.steps)

\* C11: no row that reaches feature computation has a missing CustomerID, a
\* non-positive Quantity, UnitPrice or TotalPrice, or an InvoiceDate that did
\* not parse.
C11_CleanedRows ==
    ReachedFeatures =>
        \A i \in 1..Len(uploaded.cleaned) :
            LET row == uploaded.cleaned[i]
            IN  /\ row.CustomerID # NaN
                /\ row.InvoiceDate # NaN
                /\ row.TotalPrice > 0
                /\ "Quantity" \in DOMAIN row => row.Quantity > 0
                /\ "UnitPrice" \in DOMAIN row => row.UnitPrice > 0

\* the file has the columns the pipeline needs
SchemaComplete ==
    /\ {"CustomerID", "InvoiceDate"} \subseteq raw_df.columns
    /\ \/ "TotalPrice" \in raw_df.columns
       \/ {"Quantity", "UnitPrice"} \subseteq raw_df.columns

\* C12: a file lacking a required column is rejected with a reported error
\* before any aggregation: process_uploaded_data returns no table and
\* compute_rfm is not invoked.
C12_SchemaFailFast ==
    (uploaded.status # "none" /\ ~SchemaComplete) =>
        /\ uploaded.status = "stopped"
        /\ uploaded.reported = "st.error"
        /\ uploaded.returned \in {"None", "none"}
        /\ ~ReachedFeatures
        /\ uploaded.customer_data = <<>>

\* a file with CustomerID, InvoiceDate and Quantity but neither UnitPrice nor
\* TotalPrice, for which process_uploaded_data returned None
C12_Witness ==
    /\ raw_df.columns = {"CustomerID", "InvoiceDate", "Quantity"}
    /\ uploaded.returned = "None"
    /\ uploaded.steps = <<"process_uploaded_data", "clean_transaction_data">>

\* the columns the dashboard reads from a customer table
DashboardColumns ==
    {"Segment", "RFM_Score", "Recency", "Frequency", "Monetary", "HistoricalLTV",
     "PredictedLTV_Next6Months", "ChurnProb", "RecommendedOffer"}

\* C13: the customer table stored for the dashboard after an upload has one
\* row per CustomerID and at least the columns the dashboard reads.
C13_DashboardTable ==
    uploaded.status = "stored" =>
        /\ \A i, j \in 1..Len(uploaded.customer_data) :
            uploaded.customer_data[i].CustomerID = uploaded.customer_data[j].CustomerID
                => i = j
        /\ \A i \in 1..Len(uploaded.customer_data) :
            DashboardColumns \subseteq DOMAIN uploaded.customer_data[i]

\* C20: when the file has Quantity, UnitPrice and TotalPrice, every cleaned
\* row's TotalPrice is Quantity * UnitPrice.
C20_TotalPriceRecomputed ==
    (ReachedFeatures
        /\ {"Quantity", "UnitPrice", "TotalPrice"} \subseteq raw_df.columns) =>
        \A i \in 1..Len(uploaded.cleaned) :
            uploaded.cleaned[i].TotalPrice =
                uploaded.cleaned[i].Quantity * uploaded.cleaned[i].UnitPrice

\* C22: in a returned table a lower Recency never has the lower R_Score, a
\* higher Frequency or Monetary never has the lower F_Score or M_Score, the
\* customers with the lowest Recency have R_Score 5 and those with the highest
\* Frequency and the highest Monetary have F_Score 5 and M_Score 5.
C22_ScoreDirection ==
    Returned({"calculate_rfm", "build_all_features"}) =>
        LET rows == ret.rows
            n == Len(ret.rows)
        IN  /\ \A a, b \in 1..n :
                /\ rows[a].Recency < rows[b].Recency
                       => rows[a].R_Score >= rows[b].R_Score
                /\ rows[a].Frequency > rows[b].Frequency
                       => rows[a].F_Score >= rows[b].F_Score
                /\ rows[a].Monetary > rows[b].Monetary
                       => rows[a].M_Score >= rows[b].M_Score
            /\ \A a \in 1..n :
                /\ (\A b \in 1..n : rows[a].Recency <= rows[b].Recency)
                       => rows[a].R_Score = 5
                /\ (\A b \in 1..n : rows[a].Frequency >= rows[b].Frequency)
                       => rows[a].F_Score = 5
                /\ (\A b \in 1..n : rows[a].Monetary >= rows[b].Monetary)
                       => rows[a].M_Score = 5

\* the labels of the score column that was computed
ScoredLabels == IF scored.column = "Recency" THEN RecencyLabels ELSE DirectLabels

\* C21: a score column is the quintile binning of the raw metric values
\* whenever that binning succeeds, the rank-based binning being used only when
\* it fails; so with distinct quintile boundaries customers with equal
\* Frequency have equal F_Score.
C21_DirectBinningFirst ==
    (scored.column # "none" /\ qcut(metric, ScoredLabels).ok) =>
        /\ scored.ok
        /\ scored.codes = qcut(metric, ScoredLabels).codes
        /\ \A a, b \in 1..Len(metric) :
            metric[a] = metric[b] => scored.codes[a] = scored.codes[b]

\* the row of the second function's table for the customer of ret's i-th row
AlsoRow(i) ==
    The({also.rows[j] : j \in {k \in 1..Len(also.rows) :
                                  also.rows[k].CustomerID = ret.rows[i].CustomerID}})

\* calculate_rfm and the second function worked from the same reference date
SameReferenceDate(fn) ==
    /\ ret.fn = "calculate_rfm"
    /\ also.fn = fn
    /\ IF fn = "add_tenure_features"
       THEN RfmReferenceDate(df, ret.reference_date)
                = TenureReferenceDate(df, also.reference_date)
       ELSE ret.reference_date = also.reference_date

\* C23: when calculate_rfm and add_tenure_features are run on the same table
\* with the same reference date, every customer of the RFM table has a tenure
\* row and its RecencyDays equals the customer's Recency.
C23_RecencyDaysIsRecency ==
    (SameReferenceDate("add_tenure_features") /\ ret.status = "ok") =>
        \A i \in 1..Len(ret.rows) :
            /\ \E j \in 1..Len(also.rows) :
                   also.rows[j].CustomerID = ret.rows[i].CustomerID
            /\ AlsoRow(i).RecencyDays = ret.rows[i].Recency

\* both functions ran with the same date on a table of two customers, one of
\* them with purchases on different days
C23_Witness ==
    /\ SameReferenceDate("add_tenure_features")
    /\ ret.status = "ok"
    /\ Len(ret.rows) = 2
    /\ \E i \in 1..Len(ret.rows) :
        /\ ret.rows[i].Recency > 0
        /\ AlsoRow(i).FirstPurchase + TicksPerDay <= AlsoRow(i).LastPurchase

\* C26: in the table returned by build_all_features Recency = RecencyDays + 1
\* for every customer, so Recency >= 1 and the two columns never agree.
C26_RecencyIsRecencyDaysPlusOne ==
    Returned({"build_all_features"}) =>
        \A i \in 1..Len(ret.rows) :
            /\ ret.rows[i].RecencyDays # NaN
            /\ ret.rows[i].Recency = ret.rows[i].RecencyDays + 1
            /\ ret.rows[i].Recency >= 1
            /\ ret.rows[i].Recency # ret.rows[i].RecencyDays

\* build_all_features returned a customer whose last purchase is a day or
\* more before the latest transaction
C26_Witness ==
    /\ Returned({"build_all_features"})
    /\ \E i \in 1..Len(ret.rows) : ret.rows[i].RecencyDays >= 1

\* the columns on which the two RFM tables are compared
RfmColumns ==
    {"CustomerID", "Recency", "Frequency", "Monetary", "R_Score", "F_Score",
     "M_Score", "RFM_Score", "Segment"}

\* C27: on a cleaned transaction table and with the same reference date,
\* compute_rfm and calculate_rfm end alike and return the same customers with
\* the same metrics, scores, RFM_Score and Segment.
C27_ComputeRfmIsCalculateRfm ==
    (SameReferenceDate("compute_rfm") /\ Cleaned(df)) =>
        /\ also.status = ret.status
        /\ Len(also.rows) = Len(ret.rows)
        /\ \A i \in 1..Len(ret.rows) : \A c \in RfmColumns :
               also.rows[i][c] = ret.rows[i][c]

\* both functions scored a cleaned table of two customers, each with its
\* default reference date
C27_Witness ==
    /\ SameReferenceDate("compute_rfm")
    /\ Cleaned(df)
    /\ ret.reference_date = None
    /\ ret.status = "ok"
    /\ also.status = "ok"
    /\ Len(also.rows) = 2

\* cost_map as written in the source: offer and unit cost
CostMap ==
    {<<"VIP exclusive event invitation + early access to new products", 50>>,
     <<"Loyalty points multiplier (2x for next month)", 5>>,
     <<"Personalized 'we miss you' discount (15% off)", 8>>,
     <<"Referral bonus: give $10, get $10", 10>>,
     <<"High-value at-risk: 25% off next purchase + free shipping", 20>>,
     <<"Re-engagement email with 20% off", 6>>,
     <<"Welcome series: 10% off second purchase", 4>>,
     <<"We miss you! 15% off your next order", 7>>,
     <<"Flash sale preview (24h early access)", 2>>,
     <<"Standard monthly newsletter with personalized recommendations", 1>>}

\* the customers of the summarised table that carry the offer
CustomersOffered(offer) ==
    {i \in 1..Len(customers.rows) : customers.rows[i].RecommendedOffer = offer}

\* C25: every summary row's EstimatedCostPerCustomer is the cost table's value
\* for its offer, or 5 for an offer the table lacks, and TotalCost is the
\* number of customers with that offer times that unit cost.
C25_UnitCostAndTotal ==
    summary.status = "ok" =>
        \A n \in 1..Len(summary.rows) :
            LET row == summary.rows[n]
                listed == {p \in CostMap : p[1] = row.RecommendedOffer}
            IN  /\ listed # {} => <<row.RecommendedOffer, row.EstimatedCostPerCustomer>>
                                      \in CostMap
                /\ listed = {} => row.EstimatedCostPerCustomer = 5
                /\ row.CustomerCount = Cardinality(CustomersOffered(row.RecommendedOffer))
                /\ row.TotalCost = row.CustomerCount * row.EstimatedCostPerCustomer

\* a summary with a row for an offer the cost table lacks, made to two
\* customers
C25_Witness ==
    /\ summary.status = "ok"
    /\ \E n \in 1..Len(summary.rows) :
        /\ summary.rows[n].RecommendedOffer = CustomOffer
        /\ summary.rows[n].CustomerCount = 2
        /\ summary.rows[n].TotalCost = 10

\* the tables a finished pipeline run returns for the files of the session
FinishedTables ==
    {out.customer_data : out \in {o \in {upload_handling(file) : file \in SessionFiles} :
                                     o.status = "stored"}}

\* the non-empty tables load_customer_data returns
DefaultTables == {load_customer_data(file) : file \in DefaultFiles} \ {<<>>}

\* the last run was an upload that was rejected or that raised
UploadFailed == uploaded.status \notin {"none", "stored", "shown"} /\ raw_df.columns # {}

\* C24: the table stored in the session is always the whole table a finished
\* pipeline run returned, or the default dataset; an upload that is rejected
\* or raises stops the page and leaves the stored table and its data_source
\* as they were.
C24_NoPartialTable ==
    /\ []("customer_data" \in session.keys =>
             session.customer_data \in FinishedTables \cup DefaultTables)
    /\ [][UploadFailed' => session' = session]_vars

\* an upload raised while the session held the table of an earlier upload
C24_Witness ==
    /\ UploadFailed
    /\ uploaded.status = "ValueError"
    /\ "customer_data" \in session.keys
    /\ session.data_source = "uploaded"
    /\ session.customer_data \in FinishedTables

\* the last run had no upload
NoUploadRun == uploaded.status # "none" /\ raw_df.columns = {}

\* C28: a session that holds customer_data holds data_source, which is
\* "uploaded" exactly for a table of process_uploaded_data and "default"
\* exactly for a table of load_customer_data; a run without an upload puts
\* the default dataset in the place of uploaded data only when it is not empty.
C28_DataSourceTracksOrigin ==
    /\ []("customer_data" \in session.keys =>
             /\ "data_source" \in session.keys
             /\ session.data_source = "uploaded" <=> session.customer_data \in FinishedTables
             /\ session.data_source = "default" <=> session.customer_data \in DefaultTables)
    /\ [][(NoUploadRun' /\ session' # session) =>
             /\ session'.customer_data # <<>>
             /\ session'.customer_data \in DefaultTables
             /\ session'.data_source = "default"]_vars

\* a run without an upload found no default dataset and went on to show the
\* uploaded table
C28_Witness ==
    /\ NoUploadRun
    /\ uploaded.status = "shown"
    /\ uploaded.steps = <<"load_customer_data">>
    /\ session.data_source = "uploaded"
    /\ session.customer_data \in FinishedTables

====
